---------------------------- MODULE Spec2Model ----------------------------
(***************************************************************************)
(* The advancedTweetSearch capability of the Twitter advanced-search agent *)
(* (the handler `run` with pagination): one outbound GET, the shape check  *)
(* of the provider's JSON, the rendering of the report with its pagination *)
(* footer, the 25,000-character ceiling, and the translation of failures   *)
(* into error strings.                                                     *)
(*                                                                         *)
(* A JavaScript string is a sequence of pieces.  A piece is the first      *)
(* `len` characters of a text `txt` that is `full` characters long, so     *)
(* that lengths, concatenation and substring(0, n) are computed exactly,   *)
(* also for texts far too long to write down.                              *)
(***************************************************************************)
EXTENDS Integers, Sequences, FiniteSets, TLC

VARIABLES pc, args, sent, got, result

vars == <<pc, args, sent, got, result>>

---------------------------------------------------------------------------
(* Strings *)

\* A string literal of the source, with its real length.
Lit(t) == IF Len(t) = 0 THEN << >> ELSE <<[txt |-> t, full |-> Len(t), len |-> Len(t)]>>

\* A string of n characters named t (an input too long to spell out).
Text(t, n) == IF n = 0 THEN << >> ELSE <<[txt |-> t, full |-> n, len |-> n]>>

\* s.length
RECURSIVE length(_)
length(s) == IF s = << >> THEN 0 ELSE Head(s).len + length(Tail(s))

\* s.substring(0, n)
RECURSIVE substring(_, _)
substring(s, n) ==
    IF s = << >> \/ n <= 0 THEN << >>
    ELSE IF Head(s).len <= n
         THEN <<Head(s)>> \o substring(Tail(s), n - Head(s).len)
         ELSE <<[Head(s) EXCEPT !.len = n]>>

---------------------------------------------------------------------------
(* JavaScript values *)

Undefined == [k |-> "undefined"]
Null == [k |-> "null"]
Str(s) == [k |-> "string", s |-> s]
Num(n) == [k |-> "number", n |-> n]
Bool(b) == [k |-> "boolean", b |-> b]

\* ToBoolean, as the conditions, || and && of the handler apply it.
Truthy(v) ==
    CASE v.k = "string" -> v.s # << >>
      [] v.k = "number" -> v.n # 0
      [] v.k = "boolean" -> v.b
      [] v.k \in {"undefined", "null"} -> FALSE
      [] OTHER -> TRUE

\* a || b
Or(a, b) == IF Truthy(a) THEN a ELSE b

\* ${v} in a template literal
ToStr(v) ==
    CASE v.k = "string" -> v.s
      [] v.k = "number" -> Lit(ToString(v.n))
      [] v.k = "boolean" -> Lit(IF v.b THEN "true" ELSE "false")
      [] v.k = "undefined" -> Lit("undefined")
      [] v.k = "null" -> Lit("null")
      [] OTHER -> Lit("[object Object]")

\* o?.f : undefined when o is undefined or null, or has no such property.
Get(o, f) == IF o.k = "object" /\ f \in DOMAIN o THEN o[f] ELSE Undefined

\* v === n, for a number n
Is(v, n) == v.k = "number" /\ v.n = n

\* What a try block or the handler ends with.
Return(s) == [kind |-> "return", value |-> s]
Throw(e) == [kind |-> "throw", error |-> e]

---------------------------------------------------------------------------
(* The handler: async run({ args }) *)

maxTotalOutputLength == 25000

\* Faulty variant of cursorParam: the cursor of the request is passed on as it is.
cursorParamAsGiven(cursor) == cursor

\* cursor: cursor || ''
cursorParam(cursor) == Or(cursor, Str(<< >>))

\* The params object handed to axios.get.
requestParams(a) ==
    [query |-> a.query, queryType |-> a.queryType, cursor |-> cursorParam(a.cursor)]

\* axios.get puts a parameter in the query string of the GET unless its value
\* is undefined or null; the value is sent as text.
axiosGet(params) ==
    [n \in {m \in DOMAIN params : params[m].k \notin {"undefined", "null"}} |->
        ToStr(params[n])]

\* Faulty variant of errorMessage: msg is tried before message.
errorMessageMsgFirst(responseData) ==
    Or(Or(Get(responseData, "msg"), Get(responseData, "message")),
       Str(Lit("Unknown API error or invalid data structure (missing tweets array).")))

\* responseData?.message || responseData?.msg || '...'
errorMessage(responseData) ==
    Or(Or(Get(responseData, "message"), Get(responseData, "msg")),
       Str(Lit("Unknown API error or invalid data structure (missing tweets array).")))

failedToFetch(responseData) ==
    Lit("Error: Failed to fetch tweets. API Response: ")
        \o ToStr(errorMessage(responseData))

\* Faulty variant of emptyMessage: one wording, whether or not a cursor was supplied.
emptyMessageAnyPage(a) ==
    Lit("No tweets found matching the search query: \"") \o ToStr(a.query) \o Lit("\".")

\* The message of the empty page: by the cursor of the request.
emptyMessage(a) ==
    IF Truthy(a.cursor)
    THEN Lit("No more tweets found on this page for the query: \"")
            \o ToStr(a.query) \o Lit("\".")
    ELSE Lit("No tweets found matching the search query: \"")
            \o ToStr(a.query) \o Lit("\".")

\* if (hasNextPage && nextCursor)
moreResults(hasNextPage, nextCursor) == Truthy(hasNextPage) /\ Truthy(nextCursor)

emptyNote(hasNextPage, nextCursor) ==
    IF moreResults(hasNextPage, nextCursor)
    THEN Lit("\n*Note: The API indicates more results might exist. Use this cursor for the next page: ")
            \o ToStr(nextCursor) \o Lit("*")
    ELSE Lit("\n*Note: End of results.*")

emptyPage(a, responseData) ==
    emptyMessage(a)
        \o emptyNote(Get(responseData, "has_next_page"), Get(responseData, "next_cursor"))

\* The header of the report; the first assignment to output is overwritten by
\* one of the two branches.
header(a) ==
    IF Truthy(a.cursor)
    THEN Lit("**Search Results for Query \"") \o ToStr(a.query)
            \o Lit("\" (Type: ") \o ToStr(a.queryType)
            \o Lit(") - Page corresponding to cursor \"")
            \o substring(a.cursor.s, 10) \o Lit("...\":**\n\n")
    ELSE Lit("**Search Results for Query \"") \o ToStr(a.query)
            \o Lit("\" (Type: ") \o ToStr(a.queryType)
            \o Lit(") - First Page:**\n\n")

\* tweetTextContent.substring(0, 250) + (tweetTextContent.length > 250 ? '...' : '')
tweetText(tweet) ==
    LET tweetTextContent == Or(Get(tweet, "text"), Str(<< >>)).s
    IN  substring(tweetTextContent, 250)
            \o (IF length(tweetTextContent) > 250 THEN Lit("...") ELSE << >>)

\* One block of the report; index is the forEach index, from 0.
tweetBlock(tweet, index) ==
    LET authorUsername == Or(Get(Get(tweet, "author"), "userName"), Str(Lit("Unknown User")))
    IN  Lit(ToString(index + 1)) \o Lit(". **Author:** @") \o ToStr(authorUsername) \o Lit("\n")
        \o Lit("   **ID:** ") \o ToStr(Get(tweet, "id")) \o Lit("\n")
        \o Lit("   **Text:** ") \o tweetText(tweet) \o Lit("\n")
        \o Lit("   **Created:** ") \o ToStr(Get(tweet, "createdAt")) \o Lit("\n")
        \o Lit("   **Link:** ") \o ToStr(Get(tweet, "url")) \o Lit("\n")
        \o Lit("   **Stats:** Likes: ") \o ToStr(Or(Get(tweet, "likeCount"), Num(0)))
        \o Lit(", Retweets: ") \o ToStr(Or(Get(tweet, "retweetCount"), Num(0)))
        \o Lit(", Replies: ") \o ToStr(Or(Get(tweet, "replyCount"), Num(0)))
        \o Lit(", Views: ") \o ToStr(Or(Get(tweet, "viewCount"), Num(0)))
        \o Lit("\n\n")

\* tweetsArray.forEach(...), in the order of the array.
RECURSIVE forEachTweet(_, _)
forEachTweet(tweets, index) ==
    IF tweets = << >> THEN << >>
    ELSE tweetBlock(Head(tweets), index) \o forEachTweet(Tail(tweets), index + 1)

\* The pagination footer of a report with tweets.
footer(hasNextPage, nextCursor) ==
    IF moreResults(hasNextPage, nextCursor)
    THEN Lit("\n*Note: More results available. Use this cursor for the next page: ")
            \o ToStr(nextCursor) \o Lit("*") \o Lit("\n")
    ELSE Lit("\n*Note: End of results.*") \o Lit("\n")

\* The report before the ceiling is applied.
render(a, responseData) ==
    header(a) \o forEachTweet(responseData.tweets.items, 0)
        \o footer(Get(responseData, "has_next_page"), Get(responseData, "next_cursor"))

truncationNotice == Lit("\n... [Total output truncated due to length limit]")

\* Faulty variant of ceiling: a report of exactly the ceiling's length is cut as well.
ceilingFromLimit(output) ==
    IF length(output) >= maxTotalOutputLength
    THEN substring(output, maxTotalOutputLength) \o truncationNotice
    ELSE output

\* if (output.length > maxTotalOutputLength) output = output.substring(0, max) + notice
ceiling(output) ==
    IF length(output) > maxTotalOutputLength
    THEN substring(output, maxTotalOutputLength) \o truncationNotice
    ELSE output

\* The TypeError the engine raises when a property of null or undefined is read:
\* tweet.author on a tweet that is null, error.message on a thrown null.
propertyOfNull(name) ==
    [k |-> "object", name |-> "TypeError",
     message |-> Str(Lit("Cannot read properties of null (reading '") \o Lit(name) \o Lit("')"))]

\* The try block after the await: from the response, or the rejection of
\* axios.get, to a returned string or a thrown error.
tryBlock(a, outcome) ==
    IF outcome.kind = "reject" THEN Throw(outcome.error)
    ELSE LET responseData == outcome.data
             tweets == Get(responseData, "tweets")
         IN  IF ~Truthy(responseData) \/ tweets.k # "array"
             THEN Return(failedToFetch(responseData))
             ELSE IF Len(tweets.items) = 0
             THEN Return(emptyPage(a, responseData))
             ELSE IF \E n \in DOMAIN tweets.items : tweets.items[n].k = "null"
             THEN Throw(propertyOfNull("author"))
             ELSE Return(ceiling(render(a, responseData)))

\* Faulty variant of isAxiosError: only an error that carries a response counts.
isAxiosErrorWithResponse(error) ==
    Truthy(error) /\ Get(error, "isAxiosError").k = "boolean"
        /\ Get(error, "isAxiosError").b /\ Truthy(Get(error, "response"))

\* axios.isAxiosError(error)
isAxiosError(error) == Truthy(error) /\ Get(error, "isAxiosError").k = "boolean" /\ Get(error, "isAxiosError").b

\* error.response?.data?.msg || error.response?.data?.message || '...'
apiMessage(error) ==
    LET data == Get(Get(error, "response"), "data")
    IN  Or(Or(Get(data, "msg"), Get(data, "message")),
           Str(Lit("No specific message from API.")))

badRequest(a, error) ==
    LET potentialReason ==
            IF Truthy(a.cursor)
            THEN Lit("The search query \"") \o ToStr(a.query)
                    \o Lit("\" or the provided cursor might be invalid.")
            ELSE Lit("The search query \"") \o ToStr(a.query)
                    \o Lit("\" might be invalid or improperly formatted.")
    IN  Lit("Error: Bad request. ") \o potentialReason
            \o Lit(" Please check the query syntax and cursor value. (Status: 400, Message: ")
            \o ToStr(apiMessage(error)) \o Lit(")")

\* Faulty variant of isAuthFailure: 403 is not taken for an authentication failure.
isAuthFailure401(status) == Is(status, 401)

\* status === 401 || status === 403
isAuthFailure(status) == Is(status, 401) \/ Is(status, 403)

\* The catch block.
catchBlock(a, error) ==
    IF isAxiosError(error)
    THEN LET status == Get(Get(error, "response"), "status")
         IN  IF isAuthFailure(status)
             THEN Return(Lit("Error: Authentication failed. Please check if the TWITTER_API_IO_KEY is correct and valid. (Status: ")
                            \o ToStr(status) \o Lit(")"))
             ELSE IF Is(status, 400)
             THEN Return(badRequest(a, error))
             ELSE IF Is(status, 404)
             THEN Return(Lit("Error: API endpoint not found or unavailable. Please check the API configuration. (Status: 404)"))
             ELSE IF Is(status, 429)
             THEN Return(Lit("Error: API rate limit exceeded. Please wait and try again later. (Status: ")
                            \o ToStr(status) \o Lit(")"))
             ELSE Return(Lit("Error: An API error occurred. Status: ")
                            \o ToStr(Or(status, Str(Lit("N/A"))))
                            \o Lit(", Message: ") \o ToStr(apiMessage(error)))
    ELSE IF error.k \in {"undefined", "null"}
    THEN Throw(propertyOfNull("message"))
    ELSE Return(Lit("Error: An unexpected error occurred while searching tweets: ")
                    \o ToStr(Get(error, "message")))

\* Faulty variant of afterAwait: nothing catches what the try block throws.
afterAwaitUncaught(a, outcome) == tryBlock(a, outcome)

\* try { ... } catch (error) { ... }: what the handler ends with after the await.
afterAwait(a, outcome) ==
    LET t == tryBlock(a, outcome)
    IN  IF t.kind = "throw" THEN catchBlock(a, t.error) ELSE t

---------------------------------------------------------------------------
(* Requests, provider payloads and failures *)

\* Bounds of the model.
MaxTweets == 2
NumInvocations == 2

Invocations == 1 .. NumInvocations

Queries == {Str(Lit("\"AI\" from:openai")), Str(Lit("openserv.ai"))}
QueryTypes == {Str(Lit("Latest")), Str(Lit("Top"))}

\* The cursor of a request: omitted, empty, or a cursor of a previous page
\* (one shorter and one longer than the 10 characters the header echoes).
shortCursor == Str(Lit("DAACCgAB"))
longCursor == Str(Lit("DAACCgACGdy2lc1AJxAKAAMZ3LaVzSe"))
Cursors == {Undefined, Str(<< >>), shortCursor, longCursor}

Args == [query : Queries, queryType : QueryTypes, cursor : Cursors]

\* Tweets of the provider: every field but id is optional.
bareTweet == [k |-> "object", id |-> Str(Lit("1893456789012345678"))]

fullTweet ==
    [k |-> "object",
     id |-> Str(Lit("1893456789012345679")),
     text |-> Str(Text("a tweet of 251 characters", 251)),
     createdAt |-> Str(Lit("Tue Feb 25 10:15:00 +0000 2025")),
     url |-> Str(Lit("https://x.com/openservai/status/1893456789012345679")),
     author |-> [k |-> "object", userName |-> Str(Lit("openservai"))],
     likeCount |-> Num(12), retweetCount |-> Num(3),
     replyCount |-> Num(0), viewCount |-> Num(1500)]

\* A tweet whose link is n characters long.
linkTweet(n) ==
    [k |-> "object", id |-> Str(Lit("1893456789012345680")),
     url |-> Str(Text("a very long link", n))]

Page(tweets, hasNextPage, nextCursor) ==
    [k |-> "object", tweets |-> [k |-> "array", items |-> tweets],
     has_next_page |-> hasNextPage, next_cursor |-> nextCursor]

\* The link length with which the report of one tweet, for the first query on
\* its first page with no further page, is exactly maxTotalOutputLength long.
exactFit ==
    maxTotalOutputLength
        - length(render([query |-> Str(Lit("\"AI\" from:openai")),
                         queryType |-> Str(Lit("Latest")), cursor |-> Undefined],
                        Page(<<linkTweet(0)>>, Bool(FALSE), Undefined)))

\* Reports at the ceiling, one character over it, and cut inside the footer.
Tweets == {Null, bareTweet, fullTweet,
           linkTweet(exactFit - 60), linkTweet(exactFit), linkTweet(exactFit + 1)}

RECURSIVE SeqsUpTo(_, _)
SeqsUpTo(S, n) ==
    IF n = 0 THEN {<< >>}
    ELSE LET shorter == SeqsUpTo(S, n - 1)
         IN  shorter \cup {Append(q, x) : q \in {r \in shorter : Len(r) = n - 1}, x \in S}

PageInfos ==
    {<<Bool(TRUE), longCursor>>, <<Bool(TRUE), Str(<< >>)>>, <<Bool(TRUE), Undefined>>,
     <<Bool(FALSE), longCursor>>, <<Bool(FALSE), Undefined>>, <<Undefined, longCursor>>}

WellFormed == {Page(t, p[1], p[2]) : t \in SeqsUpTo(Tweets, MaxTweets), p \in PageInfos}

\* Optional message fields of a payload.
Maybe(name, v) == {<< >>, [x \in {name} |-> v]}

Messages ==
    {[k |-> "object"] @@ m @@ g :
        m \in Maybe("message", Str(Lit("Unauthorized"))),
        g \in Maybe("msg", Str(Lit("Credits is not enough")))}

\* Payloads with no sequence under tweets: no payload at all, tweets missing,
\* tweets of another type.
Malformed ==
    {Null, Str(<< >>)} \cup Messages
        \cup {[k |-> "object", tweets |-> Str(Lit("none"))] @@ m : m \in Messages}

Responses == WellFormed \cup Malformed

Statuses == {400, 401, 403, 404, 429, 500, 503}

\* The error axios rejects with, with the provider's response or (a DNS or
\* connection failure) without one.
AxiosError(message, response) ==
    [k |-> "object", name |-> "AxiosError", isAxiosError |-> Bool(TRUE),
     message |-> Str(Lit(message)), response |-> response]

HttpErrors ==
    {AxiosError("Request failed with status code",
                [k |-> "object", status |-> Num(st), data |-> d]) :
        st \in Statuses, d \in {Undefined} \cup Messages}

NetworkErrors ==
    {AxiosError("getaddrinfo ENOTFOUND api.twitterapi.io", Undefined),
     AxiosError("connect ECONNREFUSED", Undefined)}

\* An error that is not of axios.
OtherErrors == {[k |-> "object", name |-> "Error", message |-> Str(Lit("socket hang up"))]}

Errors == HttpErrors \cup NetworkErrors \cup OtherErrors

---------------------------------------------------------------------------
(* Invocations of the capability *)

None == [k |-> "none", kind |-> "none"]

Init ==
    /\ pc = [i \in Invocations |-> "idle"]
    /\ args = [i \in Invocations |-> None]
    /\ sent = [i \in Invocations |-> None]
    /\ got = [i \in Invocations |-> None]
    /\ result = [i \in Invocations |-> None]

\* run({ args }) up to the await: the GET is sent and the handler suspends.
Invoke(i, a) ==
    /\ pc[i] # "awaiting"
    /\ pc' = [pc EXCEPT ![i] = "awaiting"]
    /\ args' = [args EXCEPT ![i] = a]
    /\ sent' = [sent EXCEPT ![i] = [k |-> "GET", params |-> axiosGet(requestParams(a))]]
    /\ got' = [got EXCEPT ![i] = None]
    /\ result' = [result EXCEPT ![i] = None]

\* Faulty variant of Resume: query, queryType and cursor are kept in variables of the
\* module, so a resumed handler finds those of an invocation still in flight.
ResumeSharedArgs(i, outcome) ==
    /\ pc[i] = "awaiting"
    /\ \E j \in Invocations :
        /\ pc[j] = "awaiting"
        /\ got' = [got EXCEPT ![i] = outcome]
        /\ result' = [result EXCEPT ![i] = afterAwait(args[j], outcome)]
        /\ pc' = [pc EXCEPT ![i] =
                    IF afterAwait(args[j], outcome).kind = "return"
                    THEN "returned" ELSE "threw"]
    /\ UNCHANGED <<args, sent>>

\* The handler resumes with the outcome of its own call and runs to its end.
Resume(i, outcome) ==
    /\ pc[i] = "awaiting"
    /\ got' = [got EXCEPT ![i] = outcome]
    /\ result' = [result EXCEPT ![i] = afterAwait(args[i], outcome)]
    /\ pc' = [pc EXCEPT ![i] =
                IF afterAwait(args[i], outcome).kind = "return" THEN "returned" ELSE "threw"]
    /\ UNCHANGED <<args, sent>>

\* axios.get resolves with a response whose body is data.
Resolve(i, data) == Resume(i, [kind |-> "resolve", data |-> data])

\* axios.get rejects with error.
Reject(i, error) == Resume(i, [kind |-> "reject", error |-> error])

\* One invocation at a time, over all requests and outcomes.
Next ==
    \/ \E a \in Args : Invoke(1, a)
    \/ \E d \in Responses : Resolve(1, d)
    \/ \E e \in Errors : Reject(1, e)

Spec == Init /\ [][Next]_vars

\* Several invocations in flight at once, over a few requests and outcomes.
ConcArgs ==
    {[query |-> Str(Lit("\"AI\" from:openai")), queryType |-> Str(Lit("Latest")),
      cursor |-> Undefined],
     [query |-> Str(Lit("openserv.ai")), queryType |-> Str(Lit("Latest")),
      cursor |-> Undefined],
     [query |-> Str(Lit("openserv.ai")), queryType |-> Str(Lit("Top")),
      cursor |-> longCursor]}

ConcResponses ==
    {Page(<<fullTweet>>, Bool(TRUE), longCursor), Page(<< >>, Bool(FALSE), Undefined)}

ConcErrors ==
    {AxiosError("Request failed with status code",
                [k |-> "object", status |-> Num(400), data |-> Undefined]),
     AxiosError("connect ECONNREFUSED", Undefined)}

NextConc ==
    \E i \in Invocations :
        \/ \E a \in ConcArgs : Invoke(i, a)
        \/ \E d \in ConcResponses : Resolve(i, d)
        \/ \E e \in ConcErrors : Reject(i, e)

SpecConc == Init /\ [][NextConc]_vars

---------------------------------------------------------------------------
(* Reading returned strings and settled invocations *)

IsString(s) == \A n \in DOMAIN s : s[n].len \in 1 .. s[n].full

\* s holds the whole of the literal t.
Has(s, t) == \E n \in DOMAIN s : s[n].txt = t /\ s[n].len = s[n].full

\* s holds some part of the literal t.
HasPartOf(s, t) == \E n \in DOMAIN s : s[n].txt = t

\* s holds the string sub, whole, as consecutive characters.
Contains(s, sub) ==
    \E n \in 0 .. (Len(s) - Len(sub)) : SubSeq(s, n + 1, n + Len(sub)) = sub

\* p is the first length(p) characters of r.
IsPrefix(p, r) ==
    /\ Len(p) <= Len(r)
    /\ \A n \in DOMAIN p :
        /\ p[n].txt = r[n].txt /\ p[n].full = r[n].full
        /\ IF n < Len(p) THEN p[n].len = r[n].len ELSE p[n].len <= r[n].len

Returned(i) == pc[i] = "returned" /\ result[i].kind = "return"

\* The provider answered invocation i with a sequence under tweets.
GotPage(i) ==
    /\ Returned(i) /\ got[i].kind = "resolve"
    /\ Truthy(got[i].data) /\ Get(got[i].data, "tweets").k = "array"

TweetsOf(i) == got[i].data.tweets.items

\* ... and the sequence is not empty and every tweet of it was rendered.
GotTweets(i) ==
    /\ GotPage(i) /\ Len(TweetsOf(i)) > 0
    /\ \A n \in DOMAIN TweetsOf(i) : TweetsOf(i)[n].k = "object"

\* has_next_page is true and next_cursor is a non-empty string.
MoreSignalled(data) ==
    /\ Get(data, "has_next_page").k = "boolean" /\ Get(data, "has_next_page").b
    /\ Get(data, "next_cursor").k = "string" /\ Get(data, "next_cursor").s # << >>

\* A cursor was supplied with the request of invocation i.
CursorSupplied(i) == args[i].cursor.k = "string" /\ args[i].cursor.s # << >>

CursorIntros ==
    {"\n*Note: More results available. Use this cursor for the next page: ",
     "\n*Note: The API indicates more results might exist. Use this cursor for the next page: "}

EndMarker == "\n*Note: End of results.*"

\* s holds a next-cursor footer with the whole of the cursor c.
NextCursorFooter(s, c) == \E t \in CursorIntros : Contains(s, Lit(t) \o c)

\* s holds a next-cursor footer, or the beginning of one.
SomeCursorFooter(s) == \E t \in CursorIntros : HasPartOf(s, t)

EndFooter(s) == Has(s, EndMarker)

---------------------------------------------------------------------------
(* C1 *)

\* C1: whatever the request and the outcome of the outbound call, the handler
\* ends by returning a string; no invocation ends by throwing.
NeverThrows ==
    \A i \in Invocations :
        /\ pc[i] # "threw"
        /\ got[i].kind # "none" => Returned(i) /\ IsString(result[i].value)

\* A tweet that is null made the rendering throw, and the handler returned.
ThrownWhileRenderingReturned ==
    \E i \in Invocations :
        /\ GotPage(i)
        /\ \E n \in DOMAIN TweetsOf(i) : TweetsOf(i)[n].k = "null"

---------------------------------------------------------------------------
(* C2, C3 *)

\* C2: the report for a well-formed response carries the exact next_cursor
\* when has_next_page is true and next_cursor is non-empty, carries the
\* end-of-results marker in every other case, and never carries both footers.
FooterForms ==
    \A i \in Invocations :
        (GotPage(i) /\ \A n \in DOMAIN TweetsOf(i) : TweetsOf(i)[n].k = "object") =>
            LET s == result[i].value
                data == got[i].data
            IN  IF MoreSignalled(data)
                THEN NextCursorFooter(s, data.next_cursor.s) /\ ~HasPartOf(s, EndMarker)
                ELSE EndFooter(s) /\ ~SomeCursorFooter(s)

\* The same of the reports the ceiling leaves alone: C2 fails on cut reports only.
FooterFormsWhenUncut ==
    \A i \in Invocations :
        (/\ GotPage(i) /\ \A n \in DOMAIN TweetsOf(i) : TweetsOf(i)[n].k = "object"
         /\ ~Has(result[i].value, "\n... [Total output truncated due to length limit]")) =>
            LET s == result[i].value
                data == got[i].data
            IN  IF MoreSignalled(data)
                THEN NextCursorFooter(s, data.next_cursor.s) /\ ~HasPartOf(s, EndMarker)
                ELSE EndFooter(s) /\ ~SomeCursorFooter(s)

\* C3: the string returned for a non-empty tweet sequence always holds the
\* next-cursor footer or the end-of-results footer, also when the report is
\* longer than the ceiling and cut by it.
FooterAlwaysPresent ==
    \A i \in Invocations :
        GotTweets(i) =>
            \/ EndFooter(result[i].value)
            \/ NextCursorFooter(result[i].value, ToStr(Get(got[i].data, "next_cursor")))

---------------------------------------------------------------------------
(* C4 *)

\* C4: a rendered report longer than 25,000 characters is returned as its
\* first 25,000 characters followed by the truncation notice, a shorter one
\* unchanged; the returned report is never longer than 25,000 characters plus
\* the notice.
CeilingApplied ==
    \A i \in Invocations :
        GotTweets(i) =>
            LET r == render(args[i], got[i].data)
                s == result[i].value
                notice == Lit("\n... [Total output truncated due to length limit]")
                kept == SubSeq(s, 1, Len(s) - 1)
            IN  /\ length(r) <= 25000 => s = r
                /\ length(r) > 25000 =>
                    /\ Len(s) > 1 /\ <<s[Len(s)]>> = notice
                    /\ IsPrefix(kept, r) /\ length(kept) = 25000
                /\ length(s) <= 25000 + length(notice)

\* A report longer than the ceiling was returned.
LongReportReturned ==
    \E i \in Invocations :
        GotTweets(i) /\ length(render(args[i], got[i].data)) > maxTotalOutputLength

\* A report of exactly the ceiling's length was returned.
ExactFitReturned ==
    \E i \in Invocations :
        GotTweets(i) /\ length(render(args[i], got[i].data)) = maxTotalOutputLength

---------------------------------------------------------------------------
(* C5 *)

\* C5: the GET of every invocation carries query, queryType and cursor; the
\* cursor parameter is the empty string when the request has no cursor, and
\* the cursor of the request when that is non-empty.
CursorAlwaysSent ==
    \A i \in Invocations :
        pc[i] # "idle" =>
            /\ sent[i].k = "GET"
            /\ DOMAIN sent[i].params = {"query", "queryType", "cursor"}
            /\ sent[i].params.query = args[i].query.s
            /\ sent[i].params.queryType = args[i].queryType.s
            /\ args[i].cursor.k = "undefined" => sent[i].params.cursor = << >>
            /\ CursorSupplied(i) => sent[i].params.cursor = args[i].cursor.s

\* A request without cursor is in flight.
FirstPageRequested ==
    \E i \in Invocations : pc[i] = "awaiting" /\ args[i].cursor.k = "undefined"

---------------------------------------------------------------------------
(* C6, C7 *)

Rejected(i) == Returned(i) /\ got[i].kind = "reject"

ResponseOf(i) == Get(got[i].error, "response")

\* msg, then message, else the fixed fallback.
ProviderMessage(data) ==
    IF Truthy(Get(data, "msg")) THEN Get(data, "msg").s
    ELSE IF Truthy(Get(data, "message")) THEN Get(data, "message").s
    ELSE Lit("No specific message from API.")

AuthHead == "Error: Authentication failed. Please check if the TWITTER_API_IO_KEY is correct and valid. (Status: "
BadRequestHead == "Error: Bad request. "
NotFoundText == "Error: API endpoint not found or unavailable. Please check the API configuration. (Status: 404)"
RateLimitHead == "Error: API rate limit exceeded. Please wait and try again later. (Status: "
ApiErrorHead == "Error: An API error occurred. Status: "
UnexpectedHead == "Error: An unexpected error occurred while searching tweets: "

\* C6: after a failure with an HTTP status the returned string is that of
\* the status: 401 and 403 the authentication message, 400 the malformed-query
\* message (naming the cursor too when one was supplied), 404 the endpoint
\* message, 429 the rate-limit message, any other status the API-error
\* message with the status and the provider's message; the five differ.
StatusMessages ==
    /\ Cardinality({AuthHead, BadRequestHead, NotFoundText, RateLimitHead, ApiErrorHead}) = 5
    /\ \A i \in Invocations :
        (Rejected(i) /\ Get(ResponseOf(i), "status").k = "number") =>
            LET st == ResponseOf(i).status.n
                s == result[i].value
                m == ProviderMessage(Get(ResponseOf(i), "data"))
            IN  CASE st \in {401, 403} ->
                        s = Lit(AuthHead) \o Lit(ToString(st)) \o Lit(")")
                  [] st = 400 ->
                        s = Lit(BadRequestHead) \o Lit("The search query \"")
                            \o args[i].query.s
                            \o (IF CursorSupplied(i)
                                THEN Lit("\" or the provided cursor might be invalid.")
                                ELSE Lit("\" might be invalid or improperly formatted."))
                            \o Lit(" Please check the query syntax and cursor value. (Status: 400, Message: ")
                            \o m \o Lit(")")
                  [] st = 404 -> s = Lit(NotFoundText)
                  [] st = 429 ->
                        s = Lit(RateLimitHead) \o Lit(ToString(st)) \o Lit(")")
                  [] OTHER ->
                        s = Lit(ApiErrorHead) \o Lit(ToString(st))
                            \o Lit(", Message: ") \o m

\* A 403 was answered.
ForbiddenAnswered ==
    \E i \in Invocations :
        Rejected(i) /\ Get(ResponseOf(i), "status").k = "number"
            /\ ResponseOf(i).status.n = 403

\* C7 as stated: a failure without any HTTP response returns the
\* unexpected-error message with the description of the failure.
NetworkFailureDescribed ==
    \A i \in Invocations :
        (Rejected(i) /\ ~Truthy(ResponseOf(i))) =>
            result[i].value = Lit(UnexpectedHead) \o got[i].error.message.s

\* C7, amended: a failure without HTTP response that the HTTP client raised
\* (an AxiosError, as a DNS or connection failure is) returns the API-error
\* message with status N/A and the fixed fallback message, without the
\* description of the failure; only an error that is not an AxiosError
\* returns the unexpected-error message with its description.
NetworkFailureMessage ==
    \A i \in Invocations :
        (Rejected(i) /\ ~Truthy(ResponseOf(i))) =>
            IF got[i].error.name = "AxiosError"
            THEN result[i].value =
                    Lit(ApiErrorHead) \o Lit("N/A") \o Lit(", Message: ")
                        \o Lit("No specific message from API.")
            ELSE result[i].value = Lit(UnexpectedHead) \o got[i].error.message.s

\* A connection failure raised by the HTTP client was answered.
ConnectionFailureAnswered ==
    \E i \in Invocations :
        Rejected(i) /\ ~Truthy(ResponseOf(i)) /\ got[i].error.name = "AxiosError"

---------------------------------------------------------------------------
(* C8, C9 *)

\* C8: a payload that is absent, or whose tweets is missing or no sequence,
\* returns the 'Failed to fetch tweets' string with the provider's message
\* (message before msg, else the generic phrase) and no tweet block or footer.
MalformedPayloadMessage ==
    \A i \in Invocations :
        (/\ Returned(i) /\ got[i].kind = "resolve"
         /\ (~Truthy(got[i].data) \/ Get(got[i].data, "tweets").k # "array")) =>
            LET data == got[i].data
                s == result[i].value
                m == IF Truthy(Get(data, "message")) THEN Get(data, "message").s
                     ELSE IF Truthy(Get(data, "msg")) THEN Get(data, "msg").s
                     ELSE Lit("Unknown API error or invalid data structure (missing tweets array).")
            IN  /\ s = Lit("Error: Failed to fetch tweets. API Response: ") \o m
                /\ ~HasPartOf(s, ". **Author:** @")
                /\ ~HasPartOf(s, EndMarker) /\ ~SomeCursorFooter(s)

\* A payload with tweets of another type and both message fields was answered.
BothMessagesAnswered ==
    \E i \in Invocations :
        /\ Returned(i) /\ got[i].kind = "resolve"
        /\ Truthy(got[i].data) /\ Get(got[i].data, "tweets").k = "string"
        /\ Truthy(Get(got[i].data, "message")) /\ Truthy(Get(got[i].data, "msg"))

\* C9: for an empty tweet sequence the report says that no tweets were found
\* for the query when no cursor was supplied and that there are no more
\* tweets on this page when one was, in different words, and ends with the
\* note of whether has_next_page and next_cursor announce more.
EmptyPageWording ==
    /\ "No more tweets found on this page for the query: \""
            # "No tweets found matching the search query: \""
    /\ \A i \in Invocations :
        (GotPage(i) /\ Len(TweetsOf(i)) = 0) =>
            LET data == got[i].data
            IN  result[i].value =
                    (IF CursorSupplied(i)
                     THEN Lit("No more tweets found on this page for the query: \"")
                     ELSE Lit("No tweets found matching the search query: \""))
                    \o args[i].query.s \o Lit("\".")
                    \o (IF MoreSignalled(data)
                        THEN Lit("\n*Note: The API indicates more results might exist. Use this cursor for the next page: ")
                                \o data.next_cursor.s \o Lit("*")
                        ELSE Lit(EndMarker))

\* An empty page was answered to a request with a cursor.
EmptyPageAfterCursor ==
    \E i \in Invocations :
        GotPage(i) /\ Len(TweetsOf(i)) = 0 /\ CursorSupplied(i)

---------------------------------------------------------------------------
(* C10 *)

Settled(i) == pc[i] \in {"returned", "threw"}

Local(i) == <<pc[i], args[i], sent[i], got[i], result[i]>>

\* Two settled invocations with the same request and the same outcome ended
\* the same way, and what is in flight for a request is the same.
OwnRequestAndOutcome ==
    \A i, j \in Invocations :
        /\ (pc[i] # "idle" /\ pc[j] # "idle" /\ args[i] = args[j]) => sent[i] = sent[j]
        /\ (Settled(i) /\ Settled(j) /\ args[i] = args[j] /\ got[i] = got[j]) =>
                result[i] = result[j]

\* A step of one invocation leaves what every other one holds as it is.
OthersUntouched ==
    \A i, j \in Invocations :
        (i # j /\ Local(i)' # Local(i)) => Local(j)' = Local(j)

\* C10: under every interleaving of invocations around the await, what an
\* invocation returns is determined by its own request and the outcome of
\* its own call, and no step of an invocation changes what another holds.
Independent == []OwnRequestAndOutcome /\ [][OthersUntouched]_vars

\* Two invocations settled with the same request and the same outcome.
SameRequestTwice ==
    \E i, j \in Invocations :
        i # j /\ Settled(i) /\ Settled(j) /\ args[i] = args[j] /\ got[i] = got[j]

=============================================================================
